---- MODULE Spec2Model ----
(***************************************************************************)
(* The interactive controller of the HTTP client (src/src/tui.rs): the     *)
(* App state, the key dispatch of run_app, and App::send_request up to and *)
(* across its two await points, together with the header collaborator      *)
(* (src/src/headers.rs) and the JSON collaborator (src/src/json.rs).       *)
(*                                                                         *)
(* Text is a sequence of one-character strings.  Option<T> is a sequence   *)
(* of length 0 (None) or 1 (Some).                                         *)
(***************************************************************************)
EXTENDS Integers, Sequences, FiniteSets, TLC

\* ------------------------------------------------------------------ bounds

\* A session that starts from App::default reads at most this many input events.
MaxEvents == 4

\* A session that starts with a composed request reads at most this many.
MaxSendEvents == 2

\* A session hands at most this many requests to the transport.
MaxSends == 2

\* A session that starts at the top of run_tui reads at most this many.
MaxTuiEvents == 2

\* A session that starts in the middle of editing the URL reads at most this many.
MaxEditEvents == 3

\* A session whose server answers with every kind of body reads at most this many.
MaxReplyEvents == 2

\* A session whose server answers with every class of status reads at most this many.
MaxStatusEvents == 2

\* ------------------------------------------------------------ text helpers

NL == "\n"

\* char::is_whitespace, on the characters the model types or receives
Whitespace == {" ", NL}

RECURSIVE TrimStart(_)
TrimStart(s) ==
    IF s # <<>> /\ Head(s) \in Whitespace THEN TrimStart(Tail(s)) ELSE s

RECURSIVE TrimEnd(_)
TrimEnd(s) ==
    IF s # <<>> /\ s[Len(s)] \in Whitespace
    THEN TrimEnd(SubSeq(s, 1, Len(s) - 1))
    ELSE s

\* str::trim
Trim(s) == TrimEnd(TrimStart(s))

\* position of the first occurrence of c in s, 0 when there is none
IndexOf(s, c) ==
    IF \E i \in 1..Len(s) : s[i] = c
    THEN CHOOSE i \in 1..Len(s) : s[i] = c /\ \A j \in 1..(i - 1) : s[j] # c
    ELSE 0

\* str::lines: split at every newline; a final newline opens no further line
RECURSIVE Lines(_)
Lines(s) ==
    IF s = <<>> THEN <<>>
    ELSE LET i == IndexOf(s, NL)
         IN  IF i = 0 THEN <<s>>
             ELSE <<SubSeq(s, 1, i - 1)>> \o Lines(SubSeq(s, i + 1, Len(s)))

\* .filter(|line| !line.trim().is_empty()), keeping the order
RECURSIVE NonBlank(_)
NonBlank(ls) ==
    IF ls = <<>> THEN <<>>
    ELSE (IF Trim(Head(ls)) # <<>> THEN <<Head(ls)>> ELSE <<>>) \o NonBlank(Tail(ls))

\* String::pop: drop the last character; nothing to drop on an empty string
Pop(s) == IF s = <<>> THEN s ELSE SubSeq(s, 1, Len(s) - 1)

\* a push that puts the character in front
PushFront(s, c) == <<c>> \o s

\* String::push
Push(s, c) == Append(s, c)

\* ---------------------------------------------------------------- methods

\* App::get_methods, each named by its Display form
Methods == <<"GET", "POST", "PUT", "DELETE">>

\* next_method with the modulus one short
NextMethodShort(i) == (i + 1) % (Len(Methods) - 1)

\* App::next_method
NextMethod(i) == (i + 1) % Len(Methods)

\* previous_method without the wrap at zero
PreviousMethodNoWrap(i) == i - 1

\* App::previous_method
PreviousMethod(i) == IF i = 0 THEN Len(Methods) - 1 ELSE i - 1

\* App::current_method: indexes the list (0-based in the code)
CurrentMethod(i) == Methods[i + 1]

\* ---------------------------------------------------------------- headers

\* header names accept token characters only (of the characters the model types)
TokenChars == {"q", "1"}

\* header values accept visible ASCII, space and tab
ValueChars == {"q", "1", ":", " "}

\* HeaderName::from_str succeeds
ValidName(key) == key # <<>> /\ \A i \in 1..Len(key) : key[i] \in TokenChars

\* HeaderValue::from_str succeeds
ValidValue(value) == \A i \in 1..Len(value) : value[i] \in ValueChars

\* Display of HeaderError::InvalidFormat
InvalidFormat(header) ==
    <<"Invalid header format: '">> \o header \o <<"'. Use 'Key: Value' format">>

\* Display of HeaderError::InvalidName
InvalidName(name) == <<"Invalid header name: '">> \o name \o <<"'">>

\* Display of HeaderError::InvalidValue
InvalidValue(value) == <<"Invalid header value: '">> \o value \o <<"'">>

\* HeaderMap::insert: a name already present has its value replaced
MapInsert(map, name, value) ==
    IF \E i \in 1..Len(map) : map[i][1] = name
    THEN [i \in 1..Len(map) |-> IF map[i][1] = name THEN <<name, value>> ELSE map[i]]
    ELSE Append(map, <<name, value>>)

\* the body of the for loop of parse_headers, from the map built so far
RECURSIVE ParseHeadersFrom(_, _)
ParseHeadersFrom(headers, map) ==
    IF headers = <<>> THEN [ok |-> TRUE, map |-> map, err |-> <<>>]
    ELSE LET header == Head(headers)
             i      == IndexOf(header, ":")
             key    == Trim(SubSeq(header, 1, i - 1))
             value  == Trim(SubSeq(header, i + 1, Len(header)))
         IN  IF i = 0 THEN [ok |-> FALSE, map |-> <<>>, err |-> InvalidFormat(header)]
             ELSE IF ~ValidName(key)
                  THEN [ok |-> FALSE, map |-> <<>>, err |-> InvalidName(key)]
             ELSE IF ~ValidValue(value)
                  THEN [ok |-> FALSE, map |-> <<>>, err |-> InvalidValue(value)]
             ELSE ParseHeadersFrom(Tail(headers), MapInsert(map, key, value))

\* parse_headers
ParseHeaders(headers) == ParseHeadersFrom(headers, <<>>)

\* add_headers_to_request that lets a parse error pass and attaches nothing
AddHeadersIgnoringErrors(request, headers) ==
    IF headers = <<>> THEN [ok |-> TRUE, request |-> request, err |-> <<>>]
    ELSE LET parsed == ParseHeaders(headers)
         IN  [ok |-> TRUE,
              request |-> IF parsed.ok THEN [request EXCEPT !.headers = parsed.map]
                          ELSE request,
              err |-> <<>>]

\* add_headers_to_request: the request with the parsed headers attached, or the error
AddHeadersToRequest(request, headers) ==
    IF headers = <<>> THEN [ok |-> TRUE, request |-> request, err |-> <<>>]
    ELSE LET parsed == ParseHeaders(headers)
         IN  IF parsed.ok
             THEN [ok |-> TRUE,
                   request |-> [request EXCEPT !.headers = parsed.map],
                   err |-> <<>>]
             ELSE [ok |-> FALSE, request |-> request, err |-> parsed.err]

\* ------------------------------------------------------------------- JSON
\* serde_json on the JSON grammar over the characters the model types or
\* receives: objects, arrays, strings without escapes, unsigned integers,
\* the three literals, and JSON whitespace.

Digits == {"0", "1", "2", "3", "4", "5", "6", "7", "8", "9"}

\* what a failed parse returns in place of a value
NoValue == [t |-> "none"]

\* the error of a parse that failed
ParseFail == [ok |-> FALSE, val |-> NoValue, next |-> 0]

\* first position at or after i that holds no whitespace
RECURSIVE SkipWs(_, _)
SkipWs(s, i) ==
    IF i <= Len(s) /\ s[i] \in Whitespace THEN SkipWs(s, i + 1) ELSE i

\* whether the characters of lit stand in s from position i on
StartsWithAt(s, i, lit) ==
    /\ i + Len(lit) - 1 <= Len(s)
    /\ \A k \in 1..Len(lit) : s[i + k - 1] = lit[k]

\* end of the run of digits that starts at i
RECURSIVE DigitsEnd(_, _)
DigitsEnd(s, i) ==
    IF i <= Len(s) /\ s[i] \in Digits THEN DigitsEnd(s, i + 1) ELSE i

\* an unsigned integer at i; a leading zero stands alone
ParseNumber(s, i) ==
    LET j == IF s[i] = "0" THEN i + 1 ELSE DigitsEnd(s, i)
    IN  IF j <= Len(s) /\ s[j] \in Digits THEN ParseFail
        ELSE [ok |-> TRUE, val |-> [t |-> "num", text |-> SubSeq(s, i, j - 1)], next |-> j]

\* a string whose opening quote is at i: up to the next quote, no control character
ParseString(s, i) ==
    LET rest == SubSeq(s, i + 1, Len(s))
        j    == IndexOf(rest, "\"")
    IN  IF j = 0 \/ \E k \in 1..(j - 1) : rest[k] = NL THEN ParseFail
        ELSE [ok |-> TRUE,
              val |-> [t |-> "str", text |-> SubSeq(rest, 1, j - 1)],
              next |-> i + j + 1]

\* Map::insert: a key already present has its value replaced
MemberInsert(members, key, val) ==
    IF \E i \in 1..Len(members) : members[i].key = key
    THEN [i \in 1..Len(members) |->
            IF members[i].key = key THEN [key |-> key, val |-> val] ELSE members[i]]
    ELSE Append(members, [key |-> key, val |-> val])

RECURSIVE ParseValue(_, _)
RECURSIVE ParseElements(_, _, _)
RECURSIVE ParseMembers(_, _, _)

\* the elements of an array after its first: i is just behind an element
ParseElements(s, i, items) ==
    LET j == SkipWs(s, i)
    IN  IF j > Len(s) THEN ParseFail
        ELSE IF s[j] = "]"
             THEN [ok |-> TRUE, val |-> [t |-> "arr", items |-> items], next |-> j + 1]
        ELSE IF s[j] # "," THEN ParseFail
        ELSE LET k == SkipWs(s, j + 1)
                 v == ParseValue(s, k)
             IN  IF k > Len(s) \/ s[k] = "]" \/ ~v.ok THEN ParseFail
                 ELSE ParseElements(s, v.next, Append(items, v.val))

\* one "key": value member at i, then the rest of the object
ParseMembers(s, i, members) ==
    LET j == SkipWs(s, i)
        key == ParseString(s, j)
        c == SkipWs(s, key.next)
        v == ParseValue(s, c + 1)
        e == SkipWs(s, v.next)
        more == MemberInsert(members, key.val.text, v.val)
    IN  IF j > Len(s) \/ s[j] # "\"" \/ ~key.ok THEN ParseFail
        ELSE IF c > Len(s) \/ s[c] # ":" \/ ~v.ok THEN ParseFail
        ELSE IF e > Len(s) THEN ParseFail
        ELSE IF s[e] = "}"
             THEN [ok |-> TRUE, val |-> [t |-> "obj", members |-> more], next |-> e + 1]
        ELSE IF s[e] = "," THEN ParseMembers(s, e + 1, more)
        ELSE ParseFail

\* one JSON value, after any whitespace at i
ParseValue(s, i) ==
    LET j == SkipWs(s, i)
    IN  IF j > Len(s) THEN ParseFail
        ELSE IF s[j] = "{"
             THEN LET k == SkipWs(s, j + 1)
                  IN  IF k <= Len(s) /\ s[k] = "}"
                      THEN [ok |-> TRUE, val |-> [t |-> "obj", members |-> <<>>],
                            next |-> k + 1]
                      ELSE ParseMembers(s, j + 1, <<>>)
        ELSE IF s[j] = "["
             THEN LET k == SkipWs(s, j + 1)
                      v == ParseValue(s, k)
                  IN  IF k <= Len(s) /\ s[k] = "]"
                      THEN [ok |-> TRUE, val |-> [t |-> "arr", items |-> <<>>],
                            next |-> k + 1]
                      ELSE IF ~v.ok THEN ParseFail
                      ELSE ParseElements(s, v.next, <<v.val>>)
        ELSE IF s[j] = "\"" THEN ParseString(s, j)
        ELSE IF s[j] \in Digits THEN ParseNumber(s, j)
        ELSE IF StartsWithAt(s, j, <<"n", "u", "l", "l">>)
             THEN [ok |-> TRUE, val |-> [t |-> "lit", text |-> SubSeq(s, j, j + 3)],
                   next |-> j + 4]
        ELSE IF StartsWithAt(s, j, <<"t", "r", "u", "e">>)
             THEN [ok |-> TRUE, val |-> [t |-> "lit", text |-> SubSeq(s, j, j + 3)],
                   next |-> j + 4]
        ELSE IF StartsWithAt(s, j, <<"f", "a", "l", "s", "e">>)
             THEN [ok |-> TRUE, val |-> [t |-> "lit", text |-> SubSeq(s, j, j + 4)],
                   next |-> j + 5]
        ELSE ParseFail

\* serde_json::from_str::<Value>: one value, then nothing but whitespace
FromStr(text) ==
    LET v == ParseValue(text, 1)
    IN  IF v.ok /\ SkipWs(text, v.next) > Len(text) THEN v ELSE ParseFail

\* two spaces for each level of nesting
RECURSIVE Indent(_)
Indent(depth) == IF depth = 0 THEN <<>> ELSE <<" ", " ">> \o Indent(depth - 1)

RECURSIVE Pretty(_, _)
RECURSIVE PrettyItems(_, _)
RECURSIVE PrettyMembers(_, _)

\* the elements of a non-empty array, each on a line of its own
PrettyItems(items, depth) ==
    <<NL>> \o Indent(depth) \o Pretty(Head(items), depth)
    \o (IF Len(items) = 1 THEN <<>> ELSE <<",">> \o PrettyItems(Tail(items), depth))

\* the members of a non-empty object, each on a line of its own
PrettyMembers(members, depth) ==
    <<NL>> \o Indent(depth) \o <<"\"">> \o Head(members).key \o <<"\"", ":", " ">>
    \o Pretty(Head(members).val, depth)
    \o (IF Len(members) = 1 THEN <<>> ELSE <<",">> \o PrettyMembers(Tail(members), depth))

\* serde_json::to_string_pretty of a value that stands at the given depth
Pretty(v, depth) ==
    IF v.t = "str" THEN <<"\"">> \o v.text \o <<"\"">>
    ELSE IF v.t = "arr"
         THEN IF v.items = <<>> THEN <<"[", "]">>
              ELSE <<"[">> \o PrettyItems(v.items, depth + 1)
                   \o <<NL>> \o Indent(depth) \o <<"]">>
    ELSE IF v.t = "obj"
         THEN IF v.members = <<>> THEN <<"{", "}">>
              ELSE <<"{">> \o PrettyMembers(v.members, depth + 1)
                   \o <<NL>> \o Indent(depth) \o <<"}">>
    ELSE v.text

\* str::starts_with on a single character
StartsWith(s, c) == s # <<>> /\ s[1] = c

\* str::ends_with on a single character
EndsWith(s, c) == s # <<>> /\ s[Len(s)] = c

\* is_json_like
IsJsonLike(text) ==
    LET trimmed == Trim(text)
    IN  \/ StartsWith(trimmed, "{") /\ EndsWith(trimmed, "}")
        \/ StartsWith(trimmed, "[") /\ EndsWith(trimmed, "]")

\* Display of the JsonError that serde_json's error converts into
JsonParseError == <<"JSON parse error: ", "serde_json::Error">>

\* pretty_print_json
PrettyPrintJson(text) ==
    IF ~IsJsonLike(text)
    THEN [ok |-> FALSE, text |-> <<>>,
          err |-> <<"Invalid JSON: ", "Text doesn't look like JSON">>]
    ELSE LET parsed == FromStr(text)
         IN  IF parsed.ok
             THEN [ok |-> TRUE, text |-> Pretty(parsed.val, 0), err |-> <<>>]
             ELSE [ok |-> FALSE, text |-> <<>>, err |-> JsonParseError]

\* a pretty printer that gives nothing back when it fails
PrettyPrintJsonOrNothing(text) ==
    LET r == PrettyPrintJson(text) IN IF r.ok THEN r.text ELSE <<>>

\* pretty_print_json_safe
PrettyPrintJsonSafe(text) ==
    LET r == PrettyPrintJson(text) IN IF r.ok THEN r.text ELSE text

\* validate_json
ValidateJson(text) ==
    IF FromStr(text).ok THEN [ok |-> TRUE, err |-> <<>>]
    ELSE [ok |-> FALSE, err |-> JsonParseError]

\* ------------------------------------------------------------ environment

\* the characters of KeyCode::Char that are pressed in Normal focus
NormalChars == {"q", "u", "h", "b", "j", "m", "M", "1"}

\* the characters of KeyCode::Char that are pressed in an editing focus
TypedChars == {"q", ":", " ", "1"}

\* the other key codes that are pressed
SpecialKeys == {"Enter", "Esc", "Backspace", "Tab"}

\* the errors request.send() resolves to
SendErrors == {"error sending request"}

\* the errors response.text() resolves to
TextErrors == {"error decoding response body"}

\* the status codes a response carries
Statuses == {200, 404}

\* StatusCode's Display: the code and its canonical reason
StatusText(status) ==
    IF status = 200 THEN "200 OK"
    ELSE IF status = 301 THEN "301 Moved Permanently"
    ELSE IF status = 404 THEN "404 Not Found"
    ELSE "500 Internal Server Error"

\* status codes of every class that a server answers with
AllStatuses == {200, 301, 404, 500}

\* the header lists a response carries, as the name and to_str().unwrap_or("") of each
ResponseHeaders == {<<<<"content-type", "application/json">>>>}

\* the bodies a response carries
ResponseBodies == {<<"o", "k">>, <<"{", "\"", "a", "\"", ":", "1", "}">>}

\* the round-trip times, in milliseconds
Durations == {0, 12}

\* bodies of every kind: a JSON object; a JSON array inside whitespace; text in
\* braces that is no JSON; text that opens as an array and closes as an object;
\* JSON that is neither object nor array
ReplyBodies ==
    { <<"{", "\"", "a", "\"", ":", "1", "}">>,
      <<" ", "[", "1", "]", NL>>,
      <<"{", "q", "}">>,
      <<"[", "1", "}">>,
      <<"1">> }

\* header lists with and without a content type
ReplyHeaders == {<<>>, <<<<"content-type", "application/json">>>>}

\* what the server of a session answers with
Replies == [headers |-> ResponseHeaders, bodies |-> ResponseBodies, statuses |-> Statuses]

\* ------------------------------------------------------------------ state

VARIABLES
    should_quit,      \* App.should_quit
    input_mode,       \* App.input_mode
    active_panel,     \* App.active_panel
    method_index,     \* App.method_index
    url,              \* App.url
    headers_input,    \* App.headers_input
    body_input,       \* App.body_input
    is_json_body,     \* App.is_json_body
    current_response, \* App.current_response
    status_message,   \* App.status_message
    request_history,  \* App.request_history
    pc,               \* where run_app stands: draw, read, send, text, done
    key,              \* the key code matched by the current pass of the loop
    headers,          \* send_request's local: the header lines
    request,          \* send_request's local: the request builder
    response,         \* send_request's locals read off the response before its body
    send_result,      \* what send_request returned in the current pass of the loop
    run_result,       \* what run_app returned
    dispatched,       \* how many requests were handed to the transport
    before,           \* the App and the dispatch count as the send key found them
    received,         \* the headers and the body that the last response arrived with
    nevents,          \* how many input events were read
    limit,            \* how many input events the session reads at most
    replies,          \* the header lists and bodies the server of the session answers with
    typed,            \* the run of characters read in EditingUrl, and the URL it began at
    frame,            \* the widgets of the last frame the terminal drew
    raw_mode,         \* the terminal is in raw mode
    alternate_screen, \* the terminal shows the alternate screen
    mouse_capture,    \* the terminal reports mouse events
    calls,            \* the terminal-mode calls that took effect, in order
    tui_result        \* what run_tui returned

app == <<should_quit, input_mode, active_panel, method_index, url, headers_input,
         body_input, is_json_body, current_response, status_message, request_history>>

buffers == <<url, headers_input, body_input>>

locals == <<headers, request, response, before, received>>

session == <<limit, replies>>

terminal == <<raw_mode, alternate_screen, mouse_capture, calls, tui_result>>

vars == <<app, pc, key, locals, send_result, run_result, dispatched, nevents, session,
          typed, frame, terminal>>

\* the URL of App::default
DefaultUrl ==
    <<"h", "t", "t", "p", "s", ":", "/", "/", "h", "t", "t", "p", "b", "i", "n",
      ".", "o", "r", "g", "/", "g", "e", "t">>

\* the App and the dispatch count, as a record
Snapshot ==
    [should_quit |-> should_quit, input_mode |-> input_mode,
     active_panel |-> active_panel, method_index |-> method_index, url |-> url,
     headers_input |-> headers_input, body_input |-> body_input,
     is_json_body |-> is_json_body, current_response |-> current_response,
     status_message |-> status_message, request_history |-> request_history,
     dispatched |-> dispatched]

\* the terminal as run_tui hands it to run_app: every setup call has taken effect
TerminalSetUp ==
    /\ raw_mode = TRUE
    /\ alternate_screen = TRUE
    /\ mouse_capture = TRUE
    /\ calls = <<"enable_raw_mode", "EnterAlternateScreen", "EnableMouseCapture">>
    /\ tui_result = <<>>

\* App::default, at the top of run_app's loop
Init ==
    /\ should_quit = FALSE
    /\ input_mode = "Normal"
    /\ active_panel = "Request"
    /\ method_index = 0
    /\ url = DefaultUrl
    /\ headers_input = <<>>
    /\ body_input = <<>>
    /\ is_json_body = FALSE
    /\ current_response = <<>>
    /\ status_message = <<"Ready">>
    /\ request_history = <<>>
    /\ pc = "draw"
    /\ key = <<>>
    /\ headers = <<>>
    /\ request = <<>>
    /\ response = <<>>
    /\ send_result = <<>>
    /\ run_result = <<>>
    /\ dispatched = 0
    /\ before = <<>>
    /\ received = <<>>
    /\ nevents = 0
    /\ limit = MaxEvents
    /\ replies = Replies
    /\ typed = <<>>
    /\ frame = <<>>
    /\ TerminalSetUp

\* header texts a user has typed: none; one header; a line with no colon; a blank
\* line before a header; a nameless header before a line with no colon; a value
\* that is no visible ASCII; three headers, one name twice
ComposedHeaders ==
    { <<>>,
      <<"q", ":", "1">>,
      <<"q", " ", "1">>,
      <<" ", NL, "q", ":">>,
      <<":", NL, "q">>,
      <<"q", ":", "é">>,
      <<"q", ":", "1", NL, "1", ":", "q", NL, "q", ":", "q">> }

\* body texts a user has typed: none; blank; JSON; not JSON
ComposedBodies == { <<>>, <<" ">>, <<"1">>, <<"{", "q">> }

\* a session that starts with a request composed: App::default but for the method,
\* the headers, the body and the JSON flag
InitComposed ==
    /\ should_quit = FALSE
    /\ input_mode = "Normal"
    /\ active_panel = "Request"
    /\ method_index \in 0..(Len(Methods) - 1)
    /\ url = DefaultUrl
    /\ headers_input \in ComposedHeaders
    /\ body_input \in ComposedBodies
    /\ is_json_body \in BOOLEAN
    /\ current_response = <<>>
    /\ status_message = <<"Ready">>
    /\ request_history = <<>>
    /\ pc = "draw"
    /\ key = <<>>
    /\ headers = <<>>
    /\ request = <<>>
    /\ response = <<>>
    /\ send_result = <<>>
    /\ run_result = <<>>
    /\ dispatched = 0
    /\ before = <<>>
    /\ received = <<>>
    /\ nevents = 0
    /\ limit = MaxSendEvents
    /\ replies = Replies
    /\ typed = <<>>
    /\ frame = <<>>
    /\ TerminalSetUp

\* -------------------------------------------------------------- the frame
\* A frame is the sequence of widgets that ui renders, in order.  Each widget
\* has the area it is rendered into, the title of its block, its lines of text
\* and the colour of its style.

\* the two halves of the main content: main_chunks[0] and main_chunks[1]
LeftArea == "main_chunks[0]"

RightArea == "main_chunks[1]"

\* the status bar of ui
StatusBar ==
    [area |-> <<"chunks[0]", "all">>, title |-> "",
     lines |-> << <<" Status: ">> \o status_message
                  \o <<" | Press 'q' to quit, 'h' for help">> >>,
     style |-> "Blue"]

\* draw_request_panel: method and URL, headers, body
DrawRequestPanel(area) ==
    << [area |-> <<area, "0">>, title |-> "Request",
        lines |-> << <<CurrentMethod(method_index), " ">> \o url >>,
        style |-> IF input_mode = "EditingUrl" THEN "Green" ELSE "Default"],
       [area |-> <<area, "1">>, title |-> "Headers",
        lines |-> <<headers_input>>,
        style |-> IF input_mode = "EditingHeaders" THEN "Green" ELSE "Default"],
       [area |-> <<area, "2">>, title |-> IF is_json_body THEN "Body (JSON)" ELSE "Body",
        lines |-> <<body_input>>,
        style |-> IF input_mode = "EditingBody" THEN "Green" ELSE "Default"] >>

\* the colour of the status line of a response
StatusColor(status) ==
    IF status >= 200 /\ status < 300 THEN "Green"
    ELSE IF status >= 400 THEN "Red"
    ELSE "Yellow"

\* Iterator::take
Take(s, n) == SubSeq(s, 1, IF Len(s) < n THEN Len(s) ELSE n)

\* the text of the placeholder of draw_response_panel
NoResponseYet == <<"No response yet\n\nPress Enter to send request">>

\* draw_response_panel: the status, the first four headers and the body of the
\* current response, or the placeholder
DrawResponsePanel(area) ==
    IF current_response # <<>>
    THEN LET r == current_response[1]
         IN  << [area |-> <<area, "0">>, title |-> "Response Status",
                 lines |-> << <<ToString(r.status), " ", r.status_text, " (",
                                ToString(r.duration_ms), "ms)">> >>,
                 style |-> StatusColor(r.status)],
                [area |-> <<area, "1">>, title |-> "Headers",
                 lines |-> [i \in 1..Len(Take(r.headers, 4)) |->
                               <<r.headers[i][1], ": ", r.headers[i][2]>>],
                 style |-> "Default"],
                [area |-> <<area, "2">>, title |-> "Response Body",
                 lines |-> <<r.body>>, style |-> "Default"] >>
    ELSE << [area |-> <<area, "all">>, title |-> "Response",
             lines |-> <<NoResponseYet>>, style |-> "Gray"] >>

\* the list item of draw_history_panel for the i-th entry of the history
HistoryItem(i) ==
    LET req == request_history[i][1]
        resp == request_history[i][2]
    IN  <<ToString(i), ": ", req.method, " ">> \o req.url
        \o <<" [", IF resp # <<>> THEN ToString(resp[1].status) ELSE "...", "]">>

\* draw_history_panel
DrawHistoryPanel(area) ==
    << [area |-> <<area, "all">>, title |-> "History",
        lines |-> [i \in 1..Len(request_history) |-> HistoryItem(i)],
        style |-> "Default"] >>

\* ui: the status bar, the request panel, and the panel that active_panel names
Ui ==
    <<StatusBar>> \o DrawRequestPanel(LeftArea)
    \o (IF active_panel = "Request" THEN DrawRequestPanel(LeftArea)
        ELSE IF active_panel = "Response" THEN DrawResponsePanel(RightArea)
        ELSE DrawHistoryPanel(RightArea))

\* URLs a user has left in the buffer: none; two characters
ComposedUrls == { <<>>, <<"q", "1">> }

\* a session that is picked up while the URL is edited: App::default but for the
\* focus and the URL
InitEditing ==
    /\ should_quit = FALSE
    /\ input_mode = "EditingUrl"
    /\ active_panel = "Request"
    /\ method_index = 0
    /\ url \in ComposedUrls
    /\ headers_input = <<>>
    /\ body_input = <<>>
    /\ is_json_body = FALSE
    /\ current_response = <<>>
    /\ status_message = <<"Ready">>
    /\ request_history = <<>>
    /\ pc = "draw"
    /\ key = <<>>
    /\ headers = <<>>
    /\ request = <<>>
    /\ response = <<>>
    /\ send_result = <<>>
    /\ run_result = <<>>
    /\ dispatched = 0
    /\ before = <<>>
    /\ received = <<>>
    /\ nevents = 0
    /\ limit = MaxEditEvents
    /\ replies = Replies
    /\ typed = <<>>
    /\ frame = <<>>
    /\ TerminalSetUp

\* a session whose server answers with bodies of every kind: App::default
InitReply ==
    /\ should_quit = FALSE
    /\ input_mode = "Normal"
    /\ active_panel = "Request"
    /\ method_index = 0
    /\ url = DefaultUrl
    /\ headers_input = <<>>
    /\ body_input = <<>>
    /\ is_json_body = FALSE
    /\ current_response = <<>>
    /\ status_message = <<"Ready">>
    /\ request_history = <<>>
    /\ pc = "draw"
    /\ key = <<>>
    /\ headers = <<>>
    /\ request = <<>>
    /\ response = <<>>
    /\ send_result = <<>>
    /\ run_result = <<>>
    /\ dispatched = 0
    /\ before = <<>>
    /\ received = <<>>
    /\ nevents = 0
    /\ limit = MaxReplyEvents
    /\ replies = [headers |-> ReplyHeaders, bodies |-> ReplyBodies, statuses |-> Statuses]
    /\ typed = <<>>
    /\ frame = <<>>
    /\ TerminalSetUp

\* a session whose server answers with statuses of every class: App::default
InitStatus ==
    /\ should_quit = FALSE
    /\ input_mode = "Normal"
    /\ active_panel = "Request"
    /\ method_index = 0
    /\ url = DefaultUrl
    /\ headers_input = <<>>
    /\ body_input = <<>>
    /\ is_json_body = FALSE
    /\ current_response = <<>>
    /\ status_message = <<"Ready">>
    /\ request_history = <<>>
    /\ pc = "draw"
    /\ key = <<>>
    /\ headers = <<>>
    /\ request = <<>>
    /\ response = <<>>
    /\ send_result = <<>>
    /\ run_result = <<>>
    /\ dispatched = 0
    /\ before = <<>>
    /\ received = <<>>
    /\ nevents = 0
    /\ limit = MaxStatusEvents
    /\ replies = [headers |-> ResponseHeaders, bodies |-> {<<"o", "k">>},
                  statuses |-> AllStatuses]
    /\ typed = <<>>
    /\ frame = <<>>
    /\ TerminalSetUp

\* run_tui at its first line: App::default is what run_app will be given, the
\* terminal is as the shell left it
InitTui ==
    /\ should_quit = FALSE
    /\ input_mode = "Normal"
    /\ active_panel = "Request"
    /\ method_index = 0
    /\ url = DefaultUrl
    /\ headers_input = <<>>
    /\ body_input = <<>>
    /\ is_json_body = FALSE
    /\ current_response = <<>>
    /\ status_message = <<"Ready">>
    /\ request_history = <<>>
    /\ pc = "enable_raw_mode"
    /\ key = <<>>
    /\ headers = <<>>
    /\ request = <<>>
    /\ response = <<>>
    /\ send_result = <<>>
    /\ run_result = <<>>
    /\ dispatched = 0
    /\ before = <<>>
    /\ received = <<>>
    /\ nevents = 0
    /\ limit = MaxTuiEvents
    /\ replies = Replies
    /\ typed = <<>>
    /\ frame = <<>>
    /\ raw_mode = FALSE
    /\ alternate_screen = FALSE
    /\ mouse_capture = FALSE
    /\ calls = <<>>
    /\ tui_result = <<>>

\* --------------------------------------------------------------- the loop

\* a draw that leaves the frame as it is when the pass before it ran a send
DrawSkippingAfterSend ==
    /\ pc = "draw"
    /\ pc' = "read"
    /\ frame' = IF send_result # <<>> THEN frame ELSE <<Ui>>
    /\ key' = <<>>
    /\ send_result' = <<>>
    /\ before' = <<>>
    /\ received' = <<>>
    /\ UNCHANGED <<app, headers, request, response, run_result, dispatched, nevents,
                   session, typed, terminal>>

\* a draw that also runs while a request is in flight, as a spawned send allows
DrawDuringSend ==
    /\ pc \in {"draw", "send"}
    /\ pc' = IF pc = "send" THEN "send" ELSE "read"
    /\ frame' = <<Ui>>
    /\ key' = IF pc = "send" THEN key ELSE <<>>
    /\ send_result' = <<>>
    /\ before' = IF pc = "send" THEN before ELSE <<>>
    /\ received' = <<>>
    /\ UNCHANGED <<app, headers, request, response, run_result, dispatched, nevents,
                   session, typed, terminal>>

\* terminal.draw(|f| ui(f, app))? succeeds; the previous pass's locals are gone
Draw ==
    /\ pc = "draw"
    /\ pc' = "read"
    /\ frame' = <<Ui>>
    /\ key' = <<>>
    /\ send_result' = <<>>
    /\ before' = <<>>
    /\ received' = <<>>
    /\ UNCHANGED <<app, headers, request, response, run_result, dispatched, nevents,
                   session, typed, terminal>>

\* terminal.draw(..)? fails: run_app returns the error
DrawFails ==
    /\ pc = "draw"
    /\ pc' = "done"
    /\ run_result' = <<"Err">>
    /\ key' = <<>>
    /\ send_result' = <<>>
    /\ before' = <<>>
    /\ received' = <<>>
    /\ UNCHANGED <<app, headers, request, response, dispatched, nevents, session,
                   typed, frame, terminal>>

\* event::read()? fails: run_app returns the error
ReadFails ==
    /\ pc = "read"
    /\ pc' = "done"
    /\ run_result' = <<"Err">>
    /\ UNCHANGED <<app, key, locals, send_result, dispatched, nevents, session,
                   typed, frame, terminal>>

\* the end of a pass of the loop: if app.should_quit { break }
EndOfPass ==
    /\ pc' = IF should_quit' THEN "done" ELSE "draw"
    /\ run_result' = IF should_quit' THEN <<"Ok">> ELSE run_result

\* the run of characters read in EditingUrl once the given key is read: a
\* character pressed in EditingUrl opens or extends the run, any other key ends it
TypedAfter(code) ==
    IF input_mode = "EditingUrl" /\ code \in TypedChars
    THEN IF typed = <<>> THEN <<[base |-> url, chars |-> <<code>>]>>
         ELSE <<[typed[1] EXCEPT !.chars = Append(@, code)]>>
    ELSE <<>>

\* event::read() returns a key press with the given code
ReadKey(code) ==
    /\ pc = "read"
    /\ nevents < limit
    /\ nevents' = nevents + 1
    /\ key' = <<code>>
    /\ typed' = TypedAfter(code)
    /\ UNCHANGED <<session, frame, terminal>>

\* an event that is no key press: the pass ends with nothing matched
IgnoredEvent ==
    /\ pc = "read"
    /\ nevents < limit
    /\ nevents' = nevents + 1
    /\ UNCHANGED <<app, session, typed, frame, terminal>>
    /\ EndOfPass
    /\ UNCHANGED <<key, locals, send_result, dispatched>>

\* ----------------------------------------------------------- Normal focus

\* KeyCode::Char('q'): set the flag and break
NormalQuit ==
    /\ input_mode = "Normal"
    /\ ReadKey("q")
    /\ should_quit' = TRUE
    /\ pc' = "done"
    /\ run_result' = <<"Ok">>
    /\ UNCHANGED <<input_mode, active_panel, method_index, buffers, is_json_body,
                   current_response, status_message, request_history>>
    /\ UNCHANGED <<locals, send_result, dispatched>>

\* the focuses of 'h' and 'b' taken for each other
FocusOfSwapped(code) ==
    IF code = "u" THEN "EditingUrl"
    ELSE IF code = "h" THEN "EditingBody"
    ELSE "EditingHeaders"

\* the focus that each of 'u', 'h' and 'b' enters
FocusOf(code) ==
    IF code = "u" THEN "EditingUrl"
    ELSE IF code = "h" THEN "EditingHeaders"
    ELSE "EditingBody"

\* KeyCode::Char('u'), Char('h'), Char('b')
NormalEdit ==
    /\ input_mode = "Normal"
    /\ \E code \in {"u", "h", "b"} :
          /\ ReadKey(code)
          /\ input_mode' = FocusOf(code)
    /\ UNCHANGED <<should_quit, active_panel, method_index, buffers, is_json_body,
                   current_response, status_message, request_history>>
    /\ EndOfPass
    /\ UNCHANGED <<locals, send_result, dispatched>>

\* KeyCode::Char('j')
NormalToggleJson ==
    /\ input_mode = "Normal"
    /\ ReadKey("j")
    /\ is_json_body' = ~is_json_body
    /\ UNCHANGED <<should_quit, input_mode, active_panel, method_index, buffers,
                   current_response, status_message, request_history>>
    /\ EndOfPass
    /\ UNCHANGED <<locals, send_result, dispatched>>

\* KeyCode::Char('m')
NormalNextMethod ==
    /\ input_mode = "Normal"
    /\ ReadKey("m")
    /\ method_index' = NextMethod(method_index)
    /\ UNCHANGED <<should_quit, input_mode, active_panel, buffers, is_json_body,
                   current_response, status_message, request_history>>
    /\ EndOfPass
    /\ UNCHANGED <<locals, send_result, dispatched>>

\* KeyCode::Char('M')
NormalPreviousMethod ==
    /\ input_mode = "Normal"
    /\ ReadKey("M")
    /\ method_index' = PreviousMethod(method_index)
    /\ UNCHANGED <<should_quit, input_mode, active_panel, buffers, is_json_body,
                   current_response, status_message, request_history>>
    /\ EndOfPass
    /\ UNCHANGED <<locals, send_result, dispatched>>

\* a cycle that never shows the history
NextPanelSkippingHistory(panel) ==
    IF panel = "Request" THEN "Response" ELSE "Request"

\* the panel after the given one
NextPanel(panel) ==
    IF panel = "Request" THEN "Response"
    ELSE IF panel = "Response" THEN "History"
    ELSE "Request"

\* KeyCode::Tab
NormalTab ==
    /\ input_mode = "Normal"
    /\ ReadKey("Tab")
    /\ active_panel' = NextPanel(active_panel)
    /\ UNCHANGED <<should_quit, input_mode, method_index, buffers, is_json_body,
                   current_response, status_message, request_history>>
    /\ EndOfPass
    /\ UNCHANGED <<locals, send_result, dispatched>>

\* any other key code: the arm  _ => {}
NormalOther ==
    /\ input_mode = "Normal"
    /\ \E code \in {"1", "Esc"} : ReadKey(code)
    /\ UNCHANGED app
    /\ EndOfPass
    /\ UNCHANGED <<locals, send_result, dispatched>>

\* ---------------------------------------------------------- editing focus

\* what a pass in an editing focus leaves alone, and how it ends
EditingFrame ==
    /\ UNCHANGED <<should_quit, active_panel, method_index, is_json_body,
                   current_response, status_message, request_history>>
    /\ EndOfPass
    /\ UNCHANGED <<locals, send_result, dispatched>>

\* InputMode::EditingUrl, KeyCode::Esc
UrlEsc ==
    /\ input_mode = "EditingUrl"
    /\ ReadKey("Esc")
    /\ input_mode' = "Normal"
    /\ UNCHANGED buffers
    /\ EditingFrame

\* Enter in EditingUrl that inserts a new line as the other two focuses do
UrlEnterNewline ==
    /\ input_mode = "EditingUrl"
    /\ ReadKey("Enter")
    /\ url' = Push(url, NL)
    /\ UNCHANGED <<input_mode, headers_input, body_input>>
    /\ EditingFrame

\* InputMode::EditingUrl, KeyCode::Enter: the URL is confirmed
UrlEnter ==
    /\ input_mode = "EditingUrl"
    /\ ReadKey("Enter")
    /\ input_mode' = "Normal"
    /\ UNCHANGED buffers
    /\ EditingFrame

\* an EditingUrl arm where 'q' quits as it does in Normal
UrlCharQuitting ==
    /\ input_mode = "EditingUrl"
    /\ \E c \in TypedChars :
          /\ ReadKey(c)
          /\ IF c = "q"
             THEN /\ should_quit' = TRUE
                  /\ url' = url
             ELSE /\ should_quit' = FALSE
                  /\ url' = Push(url, c)
    /\ UNCHANGED <<input_mode, headers_input, body_input>>
    /\ UNCHANGED <<active_panel, method_index, is_json_body, current_response,
                   status_message, request_history>>
    /\ EndOfPass
    /\ UNCHANGED <<locals, send_result, dispatched>>

\* InputMode::EditingUrl, KeyCode::Char(c)
UrlChar ==
    /\ input_mode = "EditingUrl"
    /\ \E c \in TypedChars :
          /\ ReadKey(c)
          /\ url' = Push(url, c)
    /\ UNCHANGED <<input_mode, headers_input, body_input>>
    /\ EditingFrame

\* InputMode::EditingUrl, KeyCode::Backspace
UrlBackspace ==
    /\ input_mode = "EditingUrl"
    /\ ReadKey("Backspace")
    /\ url' = Pop(url)
    /\ UNCHANGED <<input_mode, headers_input, body_input>>
    /\ EditingFrame

\* InputMode::EditingHeaders, KeyCode::Esc
HeadersEsc ==
    /\ input_mode = "EditingHeaders"
    /\ ReadKey("Esc")
    /\ input_mode' = "Normal"
    /\ UNCHANGED buffers
    /\ EditingFrame

\* InputMode::EditingHeaders, KeyCode::Enter: a new line
HeadersEnter ==
    /\ input_mode = "EditingHeaders"
    /\ ReadKey("Enter")
    /\ headers_input' = Push(headers_input, NL)
    /\ UNCHANGED <<input_mode, url, body_input>>
    /\ EditingFrame

\* InputMode::EditingHeaders, KeyCode::Char(c)
HeadersChar ==
    /\ input_mode = "EditingHeaders"
    /\ \E c \in TypedChars :
          /\ ReadKey(c)
          /\ headers_input' = Push(headers_input, c)
    /\ UNCHANGED <<input_mode, url, body_input>>
    /\ EditingFrame

\* InputMode::EditingHeaders, KeyCode::Backspace
HeadersBackspace ==
    /\ input_mode = "EditingHeaders"
    /\ ReadKey("Backspace")
    /\ headers_input' = Pop(headers_input)
    /\ UNCHANGED <<input_mode, url, body_input>>
    /\ EditingFrame

\* InputMode::EditingBody, KeyCode::Esc
BodyEsc ==
    /\ input_mode = "EditingBody"
    /\ ReadKey("Esc")
    /\ input_mode' = "Normal"
    /\ UNCHANGED buffers
    /\ EditingFrame

\* InputMode::EditingBody, KeyCode::Enter: a new line
BodyEnter ==
    /\ input_mode = "EditingBody"
    /\ ReadKey("Enter")
    /\ body_input' = Push(body_input, NL)
    /\ UNCHANGED <<input_mode, url, headers_input>>
    /\ EditingFrame

\* a character in EditingBody that goes to the headers buffer as well
BodyCharIntoHeaders ==
    /\ input_mode = "EditingBody"
    /\ \E c \in TypedChars :
          /\ ReadKey(c)
          /\ body_input' = Push(body_input, c)
          /\ headers_input' = Push(headers_input, c)
    /\ UNCHANGED <<input_mode, url>>
    /\ EditingFrame

\* InputMode::EditingBody, KeyCode::Char(c)
BodyChar ==
    /\ input_mode = "EditingBody"
    /\ \E c \in TypedChars :
          /\ ReadKey(c)
          /\ body_input' = Push(body_input, c)
    /\ UNCHANGED <<input_mode, url, headers_input>>
    /\ EditingFrame

\* InputMode::EditingBody, KeyCode::Backspace
BodyBackspace ==
    /\ input_mode = "EditingBody"
    /\ ReadKey("Backspace")
    /\ body_input' = Pop(body_input)
    /\ UNCHANGED <<input_mode, url, headers_input>>
    /\ EditingFrame

\* any other key code in an editing focus: the arms  _ => {}
EditingOther ==
    /\ input_mode # "Normal"
    /\ ReadKey("Tab")
    /\ UNCHANGED <<input_mode, buffers>>
    /\ EditingFrame

\* ----------------------------------------------------------- send_request

\* the header name "Content-Type", as HeaderName holds it
ContentType == <<"c", "o", "n", "t", "e", "n", "t", "-", "t", "y", "p", "e">>

ApplicationJson ==
    <<"a", "p", "p", "l", "i", "c", "a", "t", "i", "o", "n", "/", "j", "s", "o", "n">>

\* let headers = self.headers_input.lines().filter(..).map(..).collect()
HeaderLines(input) == NonBlank(Lines(input))

\* client.get(&self.url) and its siblings: a builder with no header and no body
NewRequest(method, to) ==
    [method |-> method, url |-> to, headers |-> <<>>, body |-> <<>>]

\* RequestBuilder::header: one more header, after those already there
WithHeader(req, name, value) ==
    [req EXCEPT !.headers = Append(req.headers, <<name, value>>)]

\* RequestBuilder::body
WithBody(req, body) == [req EXCEPT !.body = <<body>>]

\* the body step without the call of validate_json
AttachBodyUnchecked(req, body, is_json) ==
    IF Trim(body) = <<>> THEN [ok |-> TRUE, request |-> req, err |-> <<>>]
    ELSE IF is_json
         THEN [ok |-> TRUE,
               request |-> WithBody(WithHeader(req, ContentType, ApplicationJson), body),
               err |-> <<>>]
    ELSE [ok |-> TRUE, request |-> WithBody(req, body), err |-> <<>>]

\* the body step without the Content-Type header
AttachBodyNoContentType(req, body, is_json) ==
    IF Trim(body) = <<>> THEN [ok |-> TRUE, request |-> req, err |-> <<>>]
    ELSE IF is_json
         THEN LET valid == ValidateJson(body)
              IN  IF valid.ok
                  THEN [ok |-> TRUE, request |-> WithBody(req, body), err |-> <<>>]
                  ELSE [ok |-> FALSE, request |-> req, err |-> valid.err]
    ELSE [ok |-> TRUE, request |-> WithBody(req, body), err |-> <<>>]

\* the body step: if !self.body_input.trim().is_empty() { .. }
AttachBody(req, body, is_json) ==
    IF Trim(body) = <<>> THEN [ok |-> TRUE, request |-> req, err |-> <<>>]
    ELSE IF is_json
         THEN LET valid == ValidateJson(body)
              IN  IF valid.ok
                  THEN [ok |-> TRUE,
                        request |-> WithBody(WithHeader(req, ContentType, ApplicationJson),
                                             body),
                        err |-> <<>>]
                  ELSE [ok |-> FALSE, request |-> req, err |-> valid.err]
    ELSE [ok |-> TRUE, request |-> WithBody(req, body), err |-> <<>>]

\* send_request from its first line to request.send(): the request, or the error of `?`
BuildRequest(index, to, lines, body, is_json) ==
    LET added == AddHeadersToRequest(NewRequest(CurrentMethod(index), to), lines)
    IN  IF added.ok THEN AttachBody(added.request, body, is_json) ELSE added

\* the error arm that leaves the status message as send_request set it
SendFailedKeepingStatus(err) ==
    /\ status_message' = <<"Sending request...">>
    /\ send_result' = <<"Err">>
    /\ UNCHANGED <<should_quit, input_mode, active_panel, method_index, buffers,
                   is_json_body, current_response, request_history>>
    /\ headers' = <<>>
    /\ request' = <<>>
    /\ response' = <<>>
    /\ EndOfPass

\* the error arm that also clears the response slot
SendFailedClearing(err) ==
    /\ status_message' = <<"Error: ">> \o err
    /\ send_result' = <<"Err">>
    /\ current_response' = <<>>
    /\ UNCHANGED <<should_quit, input_mode, active_panel, method_index, buffers,
                   is_json_body, request_history>>
    /\ headers' = <<>>
    /\ request' = <<>>
    /\ response' = <<>>
    /\ EndOfPass

\* the error arm that also switches to the response panel
SendFailedShowingResponse(err) ==
    /\ status_message' = <<"Error: ">> \o err
    /\ send_result' = <<"Err">>
    /\ active_panel' = "Response"
    /\ UNCHANGED <<should_quit, input_mode, method_index, buffers,
                   is_json_body, current_response, request_history>>
    /\ headers' = <<>>
    /\ request' = <<>>
    /\ response' = <<>>
    /\ EndOfPass

\* if let Err(e) = app.send_request().await { app.status_message = format!("Error: {}", e) }
SendFailed(err) ==
    /\ status_message' = <<"Error: ">> \o err
    /\ send_result' = <<"Err">>
    /\ UNCHANGED <<should_quit, input_mode, active_panel, method_index, buffers,
                   is_json_body, current_response, request_history>>
    /\ headers' = <<>>
    /\ request' = <<>>
    /\ response' = <<>>
    /\ EndOfPass

\* InputMode::Normal, KeyCode::Enter: send_request runs up to request.send().await
NormalEnter ==
    /\ input_mode = "Normal"
    /\ dispatched < MaxSends
    /\ ReadKey("Enter")
    /\ before' = <<Snapshot>>
    /\ received' = <<>>
    /\ LET lines == HeaderLines(headers_input)
           built == BuildRequest(method_index, url, lines, body_input, is_json_body)
       IN  IF built.ok
           THEN /\ status_message' = <<"Sending request...">>
                /\ headers' = lines
                /\ request' = <<built.request>>
                /\ dispatched' = dispatched + 1
                /\ pc' = "send"
                /\ UNCHANGED <<should_quit, input_mode, active_panel, method_index,
                               buffers, is_json_body, current_response, request_history>>
                /\ UNCHANGED <<response, send_result, run_result>>
           ELSE /\ SendFailed(built.err)
                /\ UNCHANGED dispatched

\* request.send().await? is an error
SendRejects ==
    /\ pc = "send"
    /\ \E e \in SendErrors : SendFailed(<<e>>)
    /\ UNCHANGED <<key, before, received, dispatched, nevents, session, typed, frame,
                   terminal>>

\* a response that counts as an error when its status is 400 or above
SendRespondsCheckingStatus ==
    /\ pc = "send"
    /\ \E status \in replies.statuses, hs \in replies.headers, ms \in Durations :
          IF status >= 400
          THEN SendFailed(<<"HTTP status error">>)
          ELSE /\ response' = <<[status |-> status, status_text |-> StatusText(status),
                                 headers |-> hs, duration |-> ms]>>
               /\ pc' = "text"
               /\ UNCHANGED <<app, headers, request, send_result, run_result>>
    /\ UNCHANGED <<key, before, received, dispatched, nevents, session, typed, frame,
                   terminal>>

\* request.send().await? is a response: its status, headers and the time taken are read
SendResponds ==
    /\ pc = "send"
    /\ \E status \in replies.statuses, hs \in replies.headers, ms \in Durations :
          response' = <<[status |-> status, status_text |-> StatusText(status),
                         headers |-> hs, duration |-> ms]>>
    /\ pc' = "text"
    /\ UNCHANGED <<app, key, headers, request, before, received, send_result, run_result,
                   dispatched, nevents, session, typed, frame, terminal>>

\* response.text().await? is an error
TextRejects ==
    /\ pc = "text"
    /\ \E e \in TextErrors : SendFailed(<<e>>)
    /\ UNCHANGED <<key, before, received, dispatched, nevents, session, typed, frame,
                   terminal>>

\* let pretty_body = if body.trim().starts_with('{') || .. { pretty_print_json_safe(&body) }
PrettyBody(body) ==
    IF StartsWith(Trim(body), "{") \/ StartsWith(Trim(body), "[")
    THEN PrettyPrintJsonSafe(body)
    ELSE body

\* let http_response = HttpResponse { .. }
HttpResponse(resp, body) ==
    [status |-> resp.status, status_text |-> resp.status_text, headers |-> resp.headers,
     body |-> PrettyBody(body), duration_ms |-> resp.duration]

\* let http_request = HttpRequest { .. }
HttpRequest(index, to, lines, body, is_json) ==
    [method |-> CurrentMethod(index), url |-> to, headers |-> lines,
     body |-> IF Trim(body) = <<>> THEN <<>> ELSE <<body>>, is_json |-> is_json]

\* format!("Request completed in {}ms", duration.as_millis())
CompletedMessage(ms) == <<"Request completed in ", ToString(ms), "ms">>

\* the end of send_request that records the request with no response beside it
SendSucceededWithoutResponse(http_request, http_response) ==
    /\ request_history' = Append(request_history, <<http_request, <<>>>>)
    /\ current_response' = <<http_response>>
    /\ active_panel' = "Response"
    /\ status_message' = CompletedMessage(http_response.duration_ms)
    /\ send_result' = <<"Ok">>
    /\ UNCHANGED <<should_quit, input_mode, method_index, buffers, is_json_body>>
    /\ headers' = <<>>
    /\ request' = <<>>
    /\ response' = <<>>
    /\ EndOfPass

\* the end of send_request without the switch of panel
SendSucceededKeepingPanel(http_request, http_response) ==
    /\ request_history' = Append(request_history, <<http_request, <<http_response>>>>)
    /\ current_response' = <<http_response>>
    /\ status_message' = CompletedMessage(http_response.duration_ms)
    /\ send_result' = <<"Ok">>
    /\ UNCHANGED <<should_quit, input_mode, active_panel, method_index, buffers,
                   is_json_body>>
    /\ headers' = <<>>
    /\ request' = <<>>
    /\ response' = <<>>
    /\ EndOfPass

\* the end of send_request that keeps only the latest pair
SendSucceededReplacing(http_request, http_response) ==
    /\ request_history' = <<<<http_request, <<http_response>>>>>>
    /\ current_response' = <<http_response>>
    /\ active_panel' = "Response"
    /\ status_message' = CompletedMessage(http_response.duration_ms)
    /\ send_result' = <<"Ok">>
    /\ UNCHANGED <<should_quit, input_mode, method_index, buffers, is_json_body>>
    /\ headers' = <<>>
    /\ request' = <<>>
    /\ response' = <<>>
    /\ EndOfPass

\* the end of send_request that clears the body buffer once it is sent
SendSucceededClearingBody(http_request, http_response) ==
    /\ request_history' = Append(request_history, <<http_request, <<http_response>>>>)
    /\ current_response' = <<http_response>>
    /\ active_panel' = "Response"
    /\ status_message' = CompletedMessage(http_response.duration_ms)
    /\ send_result' = <<"Ok">>
    /\ body_input' = <<>>
    /\ UNCHANGED <<should_quit, input_mode, method_index, url, headers_input, is_json_body>>
    /\ headers' = <<>>
    /\ request' = <<>>
    /\ response' = <<>>
    /\ EndOfPass

\* the last four assignments of send_request, and its Ok(())
SendSucceeded(http_request, http_response) ==
    /\ request_history' = Append(request_history, <<http_request, <<http_response>>>>)
    /\ current_response' = <<http_response>>
    /\ active_panel' = "Response"
    /\ status_message' = CompletedMessage(http_response.duration_ms)
    /\ send_result' = <<"Ok">>
    /\ UNCHANGED <<should_quit, input_mode, method_index, buffers, is_json_body>>
    /\ headers' = <<>>
    /\ request' = <<>>
    /\ response' = <<>>
    /\ EndOfPass

\* response.text().await? is the body
TextResponds ==
    /\ pc = "text"
    /\ \E body \in replies.bodies :
          /\ SendSucceeded(HttpRequest(method_index, url, headers, body_input, is_json_body),
                           HttpResponse(response[1], body))
          /\ received' = <<[headers |-> response[1].headers, body |-> body]>>
    /\ UNCHANGED <<key, before, dispatched, nevents, session, typed, frame, terminal>>

\* ---------------------------------------------------------------- run_tui

\* what a step of run_tui outside run_app leaves alone
OutsideRunApp ==
    UNCHANGED <<app, key, locals, send_result, run_result, dispatched, nevents,
                session, typed, frame>>

\* a `?` of run_tui returns the error
TuiReturnsErr ==
    /\ pc' = "returned"
    /\ tui_result' = <<"Err">>

\* enable_raw_mode()? succeeds
EnableRawMode ==
    /\ pc = "enable_raw_mode"
    /\ raw_mode' = TRUE
    /\ calls' = Append(calls, "enable_raw_mode")
    /\ pc' = "enter_screen"
    /\ UNCHANGED <<alternate_screen, mouse_capture, tui_result>>
    /\ OutsideRunApp

\* enable_raw_mode()? fails: the terminal is as it was
EnableRawModeFails ==
    /\ pc = "enable_raw_mode"
    /\ TuiReturnsErr
    /\ UNCHANGED <<raw_mode, alternate_screen, mouse_capture, calls>>
    /\ OutsideRunApp

\* execute!(stdout, EnterAlternateScreen, EnableMouseCapture)? succeeds
EnterScreen ==
    /\ pc = "enter_screen"
    /\ alternate_screen' = TRUE
    /\ mouse_capture' = TRUE
    /\ calls' = calls \o <<"EnterAlternateScreen", "EnableMouseCapture">>
    /\ pc' = "new_terminal"
    /\ UNCHANGED <<raw_mode, tui_result>>
    /\ OutsideRunApp

\* execute!(..)? fails: the commands are written in order, so none, the first or
\* both have reached the terminal when the error comes back
EnterScreenFails ==
    /\ pc = "enter_screen"
    /\ \E n \in 0..2 :
          /\ alternate_screen' = (n >= 1)
          /\ mouse_capture' = (n >= 2)
          /\ calls' = calls \o SubSeq(<<"EnterAlternateScreen", "EnableMouseCapture">>, 1, n)
    /\ TuiReturnsErr
    /\ UNCHANGED raw_mode
    /\ OutsideRunApp

\* Terminal::new(backend)? succeeds; App::default() is made and run_app entered
NewTerminal ==
    /\ pc = "new_terminal"
    /\ pc' = "draw"
    /\ UNCHANGED terminal
    /\ OutsideRunApp

\* Terminal::new(backend)? fails
NewTerminalFails ==
    /\ pc = "new_terminal"
    /\ TuiReturnsErr
    /\ UNCHANGED <<raw_mode, alternate_screen, mouse_capture, calls>>
    /\ OutsideRunApp

\* run_app has returned; disable_raw_mode()? succeeds
DisableRawMode ==
    /\ pc = "done"
    /\ raw_mode' = FALSE
    /\ calls' = Append(calls, "disable_raw_mode")
    /\ pc' = "leave_screen"
    /\ UNCHANGED <<alternate_screen, mouse_capture, tui_result>>
    /\ OutsideRunApp

\* disable_raw_mode()? fails
DisableRawModeFails ==
    /\ pc = "done"
    /\ TuiReturnsErr
    /\ UNCHANGED <<raw_mode, alternate_screen, mouse_capture, calls>>
    /\ OutsideRunApp

\* execute!(terminal.backend_mut(), LeaveAlternateScreen, DisableMouseCapture)? succeeds
LeaveScreen ==
    /\ pc = "leave_screen"
    /\ alternate_screen' = FALSE
    /\ mouse_capture' = FALSE
    /\ calls' = calls \o <<"LeaveAlternateScreen", "DisableMouseCapture">>
    /\ pc' = "show_cursor"
    /\ UNCHANGED <<raw_mode, tui_result>>
    /\ OutsideRunApp

\* execute!(..)? fails: none, the first or both commands have reached the terminal
LeaveScreenFails ==
    /\ pc = "leave_screen"
    /\ \E n \in 0..2 :
          /\ alternate_screen' = (n < 1)
          /\ mouse_capture' = (n < 2)
          /\ calls' = calls \o SubSeq(<<"LeaveAlternateScreen", "DisableMouseCapture">>, 1, n)
    /\ TuiReturnsErr
    /\ UNCHANGED raw_mode
    /\ OutsideRunApp

\* terminal.show_cursor()? succeeds; an error of run_app is printed; Ok(())
ShowCursor ==
    /\ pc = "show_cursor"
    /\ pc' = "returned"
    /\ tui_result' = <<"Ok">>
    /\ UNCHANGED <<raw_mode, alternate_screen, mouse_capture, calls>>
    /\ OutsideRunApp

\* terminal.show_cursor()? fails
ShowCursorFails ==
    /\ pc = "show_cursor"
    /\ TuiReturnsErr
    /\ UNCHANGED <<raw_mode, alternate_screen, mouse_capture, calls>>
    /\ OutsideRunApp

\* ------------------------------------------------------ the specification

Next ==
    \/ Draw \/ DrawFails \/ ReadFails \/ IgnoredEvent
    \/ NormalQuit \/ NormalEdit \/ NormalToggleJson
    \/ NormalNextMethod \/ NormalPreviousMethod
    \/ NormalEnter \/ NormalTab \/ NormalOther
    \/ UrlEsc \/ UrlEnter \/ UrlChar \/ UrlBackspace
    \/ HeadersEsc \/ HeadersEnter \/ HeadersChar \/ HeadersBackspace
    \/ BodyEsc \/ BodyEnter \/ BodyChar \/ BodyBackspace
    \/ EditingOther
    \/ SendRejects \/ SendResponds \/ TextRejects \/ TextResponds

Spec == Init /\ [][Next]_vars

SendSpec == InitComposed /\ [][Next]_vars

EditSpec == InitEditing /\ [][Next]_vars

ReplySpec == InitReply /\ [][Next]_vars

StatusSpec == InitStatus /\ [][Next]_vars

\* run_tui: the setup of the terminal, run_app, the teardown
TuiNext ==
    \/ EnableRawMode \/ EnableRawModeFails
    \/ EnterScreen \/ EnterScreenFails
    \/ NewTerminal \/ NewTerminalFails
    \/ Next
    \/ DisableRawMode \/ DisableRawModeFails
    \/ LeaveScreen \/ LeaveScreenFails
    \/ ShowCursor \/ ShowCursorFails

TuiSpec == InitTui /\ [][TuiNext]_vars

\* ------------------------------------------------------------- properties

\* s is a prefix of t
IsPrefix(s, t) == Len(s) <= Len(t) /\ SubSeq(t, 1, Len(s)) = s

\* the first words of the messages that describe a failed send
FailureOpenings ==
    {"Invalid header format: '", "Invalid header name: '", "Invalid header value: '",
     "JSON parse error: "} \cup SendErrors \cup TextErrors

\* C1: when a send has failed, whatever the failure, the history and the
\* current-response slot are what they were when the send key was pressed.
C1_FailedSendKeepsHistoryAndResponse ==
    send_result = <<"Err">> =>
        /\ request_history = before[1].request_history
        /\ current_response = before[1].current_response

\* a send failed after an earlier one had succeeded
C1_Witness ==
    /\ send_result = <<"Err">>
    /\ Len(request_history) = 1
    /\ current_response # <<>>

\* C2: when the Enter handler of Normal focus has finished with an error, the quit
\* flag, the focus, the panel, the method index, the three buffers and the JSON
\* flag are what they were before the send, and the status message describes the
\* failure.
C2_FailedSendChangesOnlyStatus ==
    send_result = <<"Err">> =>
        /\ should_quit = before[1].should_quit
        /\ input_mode = before[1].input_mode
        /\ active_panel = before[1].active_panel
        /\ method_index = before[1].method_index
        /\ url = before[1].url
        /\ headers_input = before[1].headers_input
        /\ body_input = before[1].body_input
        /\ is_json_body = before[1].is_json_body
        /\ Len(status_message) >= 2
        /\ status_message[1] = "Error: "
        /\ status_message[2] \in FailureOpenings

\* a send failed with a method, headers, a body and the JSON flag all set
C2_Witness ==
    /\ send_result = <<"Err">>
    /\ method_index = 2
    /\ headers_input # <<>>
    /\ body_input # <<>>
    /\ is_json_body

\* C3: when a send has succeeded, the history is the earlier history with exactly
\* one pair appended, the current response is the response of that pair, the
\* panel is Response and the status message reports the elapsed milliseconds.
C3_SuccessfulSendAppendsOnePair ==
    send_result = <<"Ok">> =>
        LET n == Len(request_history)
            last == request_history[n]
        IN  /\ n = Len(before[1].request_history) + 1
            /\ SubSeq(request_history, 1, n - 1) = before[1].request_history
            /\ Len(last[2]) = 1
            /\ current_response = last[2]
            /\ active_panel = "Response"
            /\ status_message =
                  <<"Request completed in ", ToString(last[2][1].duration_ms), "ms">>

\* a second send succeeded while the history panel was shown
C3_Witness ==
    /\ send_result = <<"Ok">>
    /\ before[1].active_panel = "History"
    /\ Len(request_history) = 2

\* C4: every step leaves the history a prefix of what it becomes, and only the
\* step that completes a send changes it.
C4_HistoryAppendOnly ==
    [][/\ IsPrefix(request_history, request_history')
       /\ request_history' # request_history =>
             /\ pc = "text"
             /\ key = <<"Enter">>
             /\ before # <<>> /\ before[1].input_mode = "Normal"
             /\ send_result' = <<"Ok">>]_vars

\* two sends are recorded, and their entries differ
C4_Witness ==
    /\ Len(request_history) = 2
    /\ request_history[1] # request_history[2]

\* a line that is not blank and holds no colon
Colonless(line) == Trim(line) # <<>> /\ \A i \in 1..Len(line) : line[i] # ":"

\* the text has a line that is not blank and holds no colon
HasColonless(text) == \E i \in 1..Len(Lines(text)) : Colonless(Lines(text)[i])

\* the name and the value of a line that holds a colon are both accepted
WellFormed(line) ==
    LET i == IndexOf(line, ":")
    IN  /\ i # 0
        /\ ValidName(Trim(SubSeq(line, 1, i - 1)))
        /\ ValidValue(Trim(SubSeq(line, i + 1, Len(line))))

\* the lines of the text that are not blank all hold a colon, a name and a value
AllWellFormed(text) ==
    \A i \in 1..Len(Lines(text)) :
        Trim(Lines(text)[i]) = <<>> \/ WellFormed(Lines(text)[i])

\* the first line of the text that is not blank and not well formed holds no colon
FirstBadIsColonless(text) ==
    \E i \in 1..Len(Lines(text)) :
        /\ Colonless(Lines(text)[i])
        /\ \A j \in 1..(i - 1) :
              Trim(Lines(text)[j]) = <<>> \/ WellFormed(Lines(text)[j])

\* the send that the snapshot belongs to stopped with an error before any dispatch
AbortedBeforeDispatch ==
    /\ send_result = <<"Err">>
    /\ request = <<>>
    /\ pc \notin {"send", "text"}
    /\ dispatched = before[1].dispatched

\* the history is as long as before the send and the response slot is unchanged
HistoryAndResponseKept ==
    /\ Len(request_history) = Len(before[1].request_history)
    /\ current_response = before[1].current_response

\* C5 as stated: a send whose headers buffer has a non-blank line without a colon
\* aborts before dispatch, keeps history length and current response, and ends with
\* the header-format error in the status message.
C5_AsStated ==
    (before # <<>> /\ HasColonless(before[1].headers_input)) =>
        /\ AbortedBeforeDispatch
        /\ HistoryAndResponseKept
        /\ Len(status_message) >= 2
        /\ status_message[2] = "Invalid header format: '"

\* C5: a send whose headers buffer has a non-blank line without a colon aborts
\* before dispatch, keeps history length and current response, and ends with a
\* header error in the status message: the header-format error when every
\* non-blank line before the first such line has a valid name and value, and
\* otherwise the name or value error of an earlier line.
C5_ColonlessHeaderAborts ==
    (before # <<>> /\ HasColonless(before[1].headers_input)) =>
        /\ AbortedBeforeDispatch
        /\ HistoryAndResponseKept
        /\ Len(status_message) >= 2
        /\ status_message[1] = "Error: "
        /\ IF FirstBadIsColonless(before[1].headers_input)
           THEN status_message[2] = "Invalid header format: '"
           ELSE status_message[2] \in {"Invalid header name: '", "Invalid header value: '"}

\* a send of a headers buffer with a colon-less line has ended in the format error
C5_Witness ==
    /\ before # <<>>
    /\ HasColonless(before[1].headers_input)
    /\ send_result = <<"Err">>
    /\ status_message[2] = "Invalid header format: '"

\* C6 as stated, read for a body buffer that holds something: a send with the JSON
\* flag set and a body buffer that is not valid JSON aborts before dispatch with a
\* JSON error, and history is unchanged.
C6_AsStated ==
    (/\ before # <<>>
     /\ before[1].is_json_body
     /\ before[1].body_input # <<>>
     /\ ~FromStr(before[1].body_input).ok) =>
        /\ AbortedBeforeDispatch
        /\ Len(status_message) >= 2
        /\ status_message[2] = "JSON parse error: "
        /\ request_history = before[1].request_history

\* C6: a send with the JSON flag set, a headers buffer whose non-blank lines are
\* all well formed, and a body buffer that is not blank and not valid JSON aborts
\* before dispatch with a JSON error, and history is unchanged.
C6_InvalidJsonBodyAborts ==
    (/\ before # <<>>
     /\ before[1].is_json_body
     /\ AllWellFormed(before[1].headers_input)
     /\ Trim(before[1].body_input) # <<>>
     /\ ~FromStr(before[1].body_input).ok) =>
        /\ AbortedBeforeDispatch
        /\ Len(status_message) >= 2
        /\ status_message[1] = "Error: "
        /\ status_message[2] = "JSON parse error: "
        /\ request_history = before[1].request_history

\* a send of a body that is not JSON, marked JSON, has ended in the JSON error
C6_Witness ==
    /\ before # <<>>
    /\ before[1].is_json_body
    /\ before[1].body_input = <<"{", "q">>
    /\ send_result = <<"Err">>
    /\ status_message[2] = "JSON parse error: "

\* the request in flight carries the body buffer and, after the parsed headers,
\* the JSON content type
BodyAttachedAsJson ==
    /\ request[1].body = <<body_input>>
    /\ request[1].headers =
          Append(ParseHeaders(headers).map, <<ContentType, ApplicationJson>>)

\* the request in flight carries the body buffer and the parsed headers alone
BodyAttachedVerbatim ==
    /\ request[1].body = <<body_input>>
    /\ request[1].headers = ParseHeaders(headers).map

\* the request in flight carries no body, and the parsed headers alone
NoBodyAttached ==
    /\ request[1].body = <<>>
    /\ request[1].headers = ParseHeaders(headers).map

\* the send that the snapshot belongs to did not end in a JSON error
NoJsonError ==
    send_result = <<"Err">> => status_message[2] # "JSON parse error: "

\* C7 as stated: the body step applies whenever the body buffer is not empty.
C7_AsStated ==
    before # <<>> =>
        IF body_input # <<>>
        THEN IF is_json_body
             THEN IF FromStr(body_input).ok
                  THEN request # <<>> => BodyAttachedAsJson
                  ELSE send_result = <<"Err">> /\ request = <<>>
             ELSE request # <<>> => BodyAttachedVerbatim
        ELSE NoJsonError /\ (request # <<>> => NoBodyAttached)

\* C7: the body step applies whenever the body buffer is not blank, that is, not
\* empty once its leading and trailing whitespace is trimmed: with the JSON flag
\* set the buffer is validated (a failure aborts the send) and on success attached
\* as it is with a Content-Type: application/json header; with the flag clear it
\* is attached as it is and no content type is added.  A blank buffer attaches no
\* body and is not validated.
C7_BodyStep ==
    before # <<>> =>
        IF Trim(body_input) # <<>>
        THEN IF is_json_body
             THEN IF FromStr(body_input).ok
                  THEN request # <<>> => BodyAttachedAsJson
                  ELSE send_result = <<"Err">> /\ request = <<>>
             ELSE request # <<>> => BodyAttachedVerbatim
        ELSE NoJsonError /\ (request # <<>> => NoBodyAttached)

\* a request is in flight with a JSON body and the content type after a header
C7_Witness ==
    /\ pc = "send"
    /\ is_json_body
    /\ body_input = <<"1">>
    /\ request[1].body = <<body_input>>
    /\ Len(request[1].headers) = 2
    /\ request[1].headers[2] = <<ContentType, ApplicationJson>>

\* C8: the method index is always one of 0, 1, 2, 3, so the current method is
\* always an element of the list of four.
C8_MethodIndexInRange ==
    /\ method_index \in 0..3
    /\ Len(Methods) = 4
    /\ method_index + 1 \in DOMAIN Methods

\* the previous-method key has wrapped the index from 0 to the last one
C8_Witness ==
    /\ key = <<"M">>
    /\ method_index = 3
    /\ nevents = 1

\* C9: a next-method step followed by three more applications of next-method gives
\* the index the step started from, and a previous-method step from index 0 gives
\* index 3, the method DELETE.
C9_MethodCyclingWraps ==
    [][/\ (pc = "read" /\ input_mode = "Normal" /\ key' = <<"m">>) =>
             NextMethod(NextMethod(NextMethod(method_index'))) = method_index
       /\ (pc = "read" /\ input_mode = "Normal" /\ key' = <<"M">> /\ method_index = 0) =>
             /\ method_index' = 3
             /\ CurrentMethod(method_index') = "DELETE"]_vars

\* the fourth next-method step in a row is back at the index of App::default
C9_Witness ==
    /\ key = <<"m">>
    /\ method_index = 0
    /\ nevents = 4

\* C10: Enter in EditingUrl returns the focus to Normal and leaves the URL as it
\* is; Enter in EditingHeaders or EditingBody appends one newline to that buffer
\* and keeps the focus; in none of the three does Enter start a send.
C10_EnterInEditingFocus ==
    [][(pc = "read" /\ input_mode # "Normal" /\ key' = <<"Enter">>) =>
          /\ input_mode = "EditingUrl" =>
                /\ input_mode' = "Normal"
                /\ UNCHANGED <<url, headers_input, body_input>>
          /\ input_mode = "EditingHeaders" =>
                /\ input_mode' = "EditingHeaders"
                /\ headers_input' = headers_input \o <<NL>>
                /\ UNCHANGED <<url, body_input>>
          /\ input_mode = "EditingBody" =>
                /\ input_mode' = "EditingBody"
                /\ body_input' = body_input \o <<NL>>
                /\ UNCHANGED <<url, headers_input>>
          /\ pc' = "draw"
          /\ UNCHANGED <<dispatched, request, before, send_result, status_message,
                         request_history, current_response>>]_vars

\* Enter was pressed in EditingHeaders after a character: the buffer ends in the
\* newline and the focus is kept
C10_Witness ==
    /\ key = <<"Enter">>
    /\ input_mode = "EditingHeaders"
    /\ headers_input = <<"q", NL>>

\* a step that reads a key press: the handler of the key that key' names runs
KeyStep == pc = "read" /\ key' # <<>>

\* C11: a character key changes at most the buffer of the focus it is pressed in:
\* in EditingUrl the headers and the body stay, in EditingHeaders the URL and the
\* body, in EditingBody the URL and the headers; and no key pressed in Normal
\* focus, the send it may start included, changes any of the three buffers.
C11_CharKeyChangesOnlyFocusedBuffer ==
    [][/\ (KeyStep /\ key'[1] \in TypedChars) =>
             /\ input_mode = "EditingUrl" => UNCHANGED <<headers_input, body_input>>
             /\ input_mode = "EditingHeaders" => UNCHANGED <<url, body_input>>
             /\ input_mode = "EditingBody" => UNCHANGED <<url, headers_input>>
       /\ (KeyStep /\ input_mode = "Normal") =>
             UNCHANGED <<url, headers_input, body_input>>
       /\ pc \in {"send", "text"} =>
             UNCHANGED <<url, headers_input, body_input>>]_vars

\* a character typed in EditingBody is in the body buffer, and only there
C11_Witness ==
    /\ key = <<"1">>
    /\ input_mode = "EditingBody"
    /\ body_input = <<"1">>
    /\ headers_input = <<>>

\* C12 as stated: while characters are delivered in EditingUrl, the URL buffer is
\* the concatenation of those characters in order.
C12_AsStated ==
    typed # <<>> => url = typed[1].chars

\* C12: while characters are delivered in EditingUrl, the URL buffer is what it
\* held when the first of them was delivered, followed by those characters in
\* order; a Backspace in EditingUrl removes exactly the last character of the
\* buffer, the last of those characters when it follows them, and leaves an empty
\* buffer empty.
C12_UrlBufferIsBasePlusTyped ==
    [][/\ typed' # <<>> => url' = typed'[1].base \o typed'[1].chars
       /\ (KeyStep /\ input_mode = "EditingUrl" /\ key' = <<"Backspace">>) =>
             /\ url = <<>> => url' = <<>>
             /\ url # <<>> => url = url' \o <<url[Len(url)]>>
             /\ typed # <<>> =>
                   url' \o <<typed[1].chars[Len(typed[1].chars)]>>
                      = typed[1].base \o typed[1].chars
             /\ UNCHANGED <<input_mode, headers_input, body_input>>]_vars

\* two characters were typed behind a URL of two others
C12_Witness ==
    /\ typed # <<>>
    /\ typed[1].base = <<"q", "1">>
    /\ typed[1].chars = <<":", "q">>
    /\ url = <<"q", "1", ":", "q">>

\* the fields of the App other than the focus
AllButFocus ==
    <<should_quit, active_panel, method_index, url, headers_input, body_input,
      is_json_body, current_response, status_message, request_history>>

\* C13: in Normal focus 'u', 'h' and 'b' move the focus to EditingUrl,
\* EditingHeaders and EditingBody and change nothing else; in an editing focus Esc
\* returns the focus to Normal and leaves the three buffers as they were.
C13_FocusEntryAndExit ==
    [][/\ (KeyStep /\ input_mode = "Normal" /\ key'[1] \in {"u", "h", "b"}) =>
             /\ key' = <<"u">> => input_mode' = "EditingUrl"
             /\ key' = <<"h">> => input_mode' = "EditingHeaders"
             /\ key' = <<"b">> => input_mode' = "EditingBody"
             /\ UNCHANGED AllButFocus
       /\ (KeyStep /\ input_mode # "Normal" /\ key' = <<"Esc">>) =>
             /\ input_mode' = "Normal"
             /\ UNCHANGED <<url, headers_input, body_input>>]_vars

\* Esc has left EditingHeaders, entered by 'h', with the edit kept
C13_Witness ==
    /\ key = <<"Esc">>
    /\ input_mode = "Normal"
    /\ headers_input # <<>>
    /\ nevents = 3

\* the fields of the App other than the panel
AllButPanel ==
    <<should_quit, input_mode, method_index, url, headers_input, body_input,
      is_json_body, current_response, status_message, request_history>>

\* C14: Tab in Normal focus moves the panel from Request to Response, from
\* Response to History and from History to Request, so that two more presses
\* return to the panel it was pressed on, and changes nothing else of the App; the
\* panel is changed by no step other than this key and the end of a successful
\* send.
C14_PanelCycle ==
    [][/\ (KeyStep /\ input_mode = "Normal" /\ key' = <<"Tab">>) =>
             /\ active_panel = "Request" => active_panel' = "Response"
             /\ active_panel = "Response" => active_panel' = "History"
             /\ active_panel = "History" => active_panel' = "Request"
             /\ NextPanel(NextPanel(active_panel')) = active_panel
             /\ UNCHANGED AllButPanel
       /\ active_panel' # active_panel =>
             \/ KeyStep /\ input_mode = "Normal" /\ key' = <<"Tab">>
             \/ pc = "text" /\ send_result' = <<"Ok">> /\ active_panel' = "Response"]_vars

\* the third Tab in a row is back at the panel of App::default
C14_Witness ==
    /\ key = <<"Tab">>
    /\ nevents = 3
    /\ active_panel = "Request"
    /\ request_history = <<>>
    /\ status_message = <<"Ready">>

\* a request is in flight: send_request stands at one of its two awaits
InFlight == pc \in {"send", "text"}

\* C15: while a request is in flight no input event is read and no frame is
\* drawn: the only steps are the two completions of the network call, which end
\* in the next await or at the top of the loop, so nothing further is processed
\* unless the call completes; a request is handed to the transport only by a key
\* read while none is in flight, and the builder is held only while one is.
C15_SingleInFlight ==
    [][/\ InFlight =>
             /\ UNCHANGED <<nevents, key, frame, dispatched, typed>>
             /\ pc' \in {"text", "draw"}
             /\ pc' = "text" => pc = "send" /\ UNCHANGED app
       /\ dispatched' # dispatched =>
             /\ KeyStep /\ ~InFlight /\ request = <<>>
             /\ dispatched' = dispatched + 1
             /\ pc' = "send"
       /\ (request' # <<>>) = (pc' \in {"send", "text"})]_vars

\* the body of a second response is awaited, the first send having completed
C15_Witness ==
    /\ pc = "text"
    /\ dispatched = 2
    /\ Len(request_history) = 1
    /\ nevents = 2

\* the titles of the widgets that a frame renders into the given half
TitlesIn(f, area) == {f[i].title : i \in {j \in 1..Len(f) : f[j].area[1] = area}}

\* the frame renders the request-composition panel
RequestPanelRendered(f) ==
    /\ {"Request", "Headers"} \subseteq TitlesIn(f, LeftArea)
    /\ (IF is_json_body THEN "Body (JSON)" ELSE "Body") \in TitlesIn(f, LeftArea)

\* C16 as stated: every frame renders the request-composition panel and exactly
\* one secondary panel, in the half beside it, for each value of active_panel:
\* for Response the current response, or the empty-state message when there is
\* none; for History the history list; for Request a panel as well.
C16_AsStated ==
    (pc = "read" /\ frame # <<>>) =>
        LET f == frame[1]
        IN  /\ RequestPanelRendered(f)
            /\ active_panel = "Response" =>
                  IF current_response = <<>>
                  THEN /\ TitlesIn(f, RightArea) = {"Response"}
                       /\ \E i \in 1..Len(f) : f[i].lines = <<NoResponseYet>>
                  ELSE TitlesIn(f, RightArea) = {"Response Status", "Headers", "Response Body"}
            /\ active_panel = "History" => TitlesIn(f, RightArea) = {"History"}
            /\ active_panel = "Request" => TitlesIn(f, RightArea) # {}

\* how often a call stands in the list of calls
Count(s, call) == Cardinality({i \in 1..Len(s) : s[i] = call})

\* C17 as stated: when run_tui has returned, on whatever path, raw mode and the
\* alternate screen are off, and each was entered at most once and left as often
\* as it was entered.
C17_AsStated ==
    pc = "returned" =>
        /\ raw_mode = FALSE
        /\ alternate_screen = FALSE
        /\ Count(calls, "enable_raw_mode") <= 1
        /\ Count(calls, "disable_raw_mode") = Count(calls, "enable_raw_mode")
        /\ Count(calls, "EnterAlternateScreen") <= 1
        /\ Count(calls, "LeaveAlternateScreen") = Count(calls, "EnterAlternateScreen")

\* the text opens with { and closes with }, or opens with [ and closes with ],
\* once the whitespace around it is dropped
LooksLikeJson(text) ==
    LET t == Trim(text)
    IN  /\ t # <<>>
        /\ \/ t[1] = "{" /\ t[Len(t)] = "}"
           \/ t[1] = "[" /\ t[Len(t)] = "]"

\* C18: when a send has succeeded, the body stored in the response record, in
\* the slot and in the history alike, is the pretty-printed form of the received
\* body if that body looks like JSON and parses as JSON, and the received body
\* itself in every other case, whatever headers came with it: the object
\* {"a":1} is stored with its key on an indented line of its own, the array [1]
\* likewise and without the whitespace around it.
C18_StoredBodyPrettyIffJson ==
    send_result = <<"Ok">> =>
        LET body == received[1].body
            stored == current_response[1].body
            n == Len(request_history)
        IN  /\ stored = IF LooksLikeJson(body) /\ FromStr(body).ok
                        THEN Pretty(FromStr(body).val, 0)
                        ELSE body
            /\ request_history[n][2][1].body = stored
            /\ body = <<"{", "\"", "a", "\"", ":", "1", "}">> =>
                  stored = <<"{", NL, " ", " ", "\"", "a", "\"", ":", " ", "1", NL, "}">>
            /\ body = <<" ", "[", "1", "]", NL>> =>
                  stored = <<"[", NL, " ", " ", "1", NL, "]">>
            /\ body \in {<<"{", "q", "}">>, <<"[", "1", "}">>, <<"1">>} => stored = body

\* a response without a content type and with the body {"a":1} is stored pretty
C18_Witness ==
    /\ send_result = <<"Ok">>
    /\ received[1].headers = <<>>
    /\ received[1].body = <<"{", "\"", "a", "\"", ":", "1", "}">>
    /\ Len(current_response[1].body) = 12

\* the name and value that a header line of the record stands for
HeaderOfLine(line) ==
    LET i == IndexOf(line, ":")
    IN  <<Trim(SubSeq(line, 1, i - 1)), Trim(SubSeq(line, i + 1, Len(line)))>>

\* the elements of a sequence, as a set
Range(s) == {s[i] : i \in 1..Len(s)}

\* C19 as stated: the request record that a successful send stores has the method
\* and the URL of the dispatched request; its header list is the non-blank lines
\* of the headers buffer in order, and the headers these lines stand for are the
\* headers attached to the dispatched request; its body is the body attached, and
\* with a body its JSON flag is set exactly when the JSON content type was attached.
C19_AsStated ==
    [][(pc = "text" /\ send_result' = <<"Ok">>) =>
          LET record == request_history'[Len(request_history')][1]
              sent == request[1]
          IN  /\ record.method = sent.method
              /\ record.url = sent.url
              /\ record.headers = NonBlank(Lines(headers_input))
              /\ {HeaderOfLine(l) : l \in Range(record.headers)} = Range(sent.headers)
              /\ record.body = sent.body
              /\ record.body # <<>> =>
                    record.is_json = (<<ContentType, ApplicationJson>> \in Range(sent.headers))]_vars

\* run_app stands inside its loop
InLoop == pc \in {"draw", "read", "send", "text"}

\* a step of the loop keeps draw and read in turn: the loop comes to its read
\* only by a draw, which leaves the frame showing the App as it is then; an event
\* is read only there, under that frame; a pass that handled its event, a send
\* included, and did not quit goes on to the next draw; and once the quit flag is
\* set, which the quit key does as it leaves the loop, no event is read, no frame
\* is drawn and the App is left alone
DrawAndReadAlternate ==
    /\ pc' = "read" => pc = "draw" /\ frame' = <<Ui>>'
    /\ nevents' # nevents => pc = "read" /\ frame = <<Ui>> /\ nevents' = nevents + 1
    /\ frame' # frame => pc = "draw" /\ pc' = "read"
    /\ (pc \in {"read", "send", "text"} /\ pc' \notin {"send", "text", "done"}) =>
          pc' = "draw" /\ ~should_quit'
    /\ (KeyStep /\ input_mode = "Normal" /\ key' = <<"q">>) =>
          should_quit' /\ pc' = "done" /\ run_result' = <<"Ok">>
    /\ should_quit => ~InLoop /\ UNCHANGED <<app, nevents, frame, run_result>>

\* C20 as stated: draw and read alternate, and the loop is left only with the
\* quit flag set.
C20_AsStated ==
    [][/\ DrawAndReadAlternate
       /\ (InLoop /\ ~InLoop') => should_quit']_vars

\* C20: draw and read alternate, and the loop is left only with the quit flag
\* set or by a draw or a read of an event that failed, which returns the error
\* with the App as it was.
C20_DrawReadAlternation ==
    [][/\ DrawAndReadAlternate
       /\ (InLoop /\ ~InLoop') =>
             /\ pc' = "done"
             /\ \/ should_quit' /\ run_result' = <<"Ok">>
                \/ /\ pc \in {"draw", "read"}
                   /\ run_result' = <<"Err">>
                   /\ UNCHANGED <<app, nevents, frame>>]_vars

\* the quit key was handled under a frame that showed a completed send, and
\* run_tui has returned
C20_Witness ==
    /\ should_quit
    /\ key = <<"q">>
    /\ nevents = 2
    /\ Len(request_history) = 1
    /\ frame = <<Ui>>
    /\ pc = "returned"
    /\ tui_result = <<"Ok">>

\* the lines of the history list of a frame, if it renders one
HistoryLines(f) ==
    {f[i].lines : i \in {j \in 1..Len(f) : f[j].title = "History"}}

\* C21: in every state the current-response slot is empty exactly when the
\* history is empty, and otherwise holds the response of the last history entry;
\* every history entry has a response, and no frame lists an entry with the
\* placeholder "..." for its status.
C21_SlotIsLastHistoryResponse ==
    /\ (current_response = <<>>) = (request_history = <<>>)
    /\ request_history # <<>> =>
          current_response = request_history[Len(request_history)][2]
    /\ \A i \in 1..Len(request_history) : Len(request_history[i][2]) = 1
    /\ frame # <<>> =>
          \A ls \in HistoryLines(frame[1]) :
              \A i \in 1..Len(ls) : "..." \notin {ls[i][k] : k \in 1..Len(ls[i])}

\* the history panel was drawn with two entries whose responses differ, the slot
\* holding the second
C21_Witness ==
    /\ pc = "read"
    /\ active_panel = "History"
    /\ Len(request_history) = 2
    /\ request_history[1][2] # request_history[2][2]
    /\ current_response = request_history[2][2]
    /\ \E ls \in HistoryLines(frame[1]) : Len(ls) = 2

\* the pieces of the text of the status bar of a frame
StatusBarText(f) == {f[1].lines[1][k] : k \in 1..Len(f[1].lines[1])}

\* C22: the status message "Sending request..." stands only while send_request
\* is at one of its awaits, where nothing is drawn: no frame shows it in its
\* status bar, and a frame drawn after a send shows the message of its
\* completion or of its error.
C22_SendingNeverDrawn ==
    /\ status_message = <<"Sending request...">> => InFlight
    /\ frame # <<>> =>
          /\ frame[1][1].title = ""
          /\ "Sending request..." \notin StatusBarText(frame[1])
    /\ (pc = "read" /\ dispatched > 0) =>
          \/ "Request completed in " \in StatusBarText(frame[1])
          \/ "Error: " \in StatusBarText(frame[1])

\* the frame after a send that the transport rejected shows the error
C22_Witness ==
    /\ pc = "read"
    /\ dispatched = 1
    /\ request_history = <<>>
    /\ {"Error: ", "error sending request"} \subseteq StatusBarText(frame[1])

\* C23: a response that arrives counts as a success whatever its status, 301,
\* 404 and 500 included: once its body is read it is appended to the history
\* with that status, becomes the current response, and the panel is Response.  A
\* send fails only with a header error, a JSON error, an error of the transport
\* or an error of reading the body: at the first await only with the transport's,
\* at the second only with the body read's.
C23_AnyStatusIsSuccess ==
    [][/\ (pc = "text" /\ send_result' = <<"Ok">>) =>
             LET n == Len(request_history')
             IN  /\ n = Len(request_history) + 1
                 /\ request_history'[n][2][1].status = response[1].status
                 /\ current_response' = request_history'[n][2]
                 /\ active_panel' = "Response"
       /\ pc = "text" =>
             \/ send_result' = <<"Ok">>
             \/ send_result' = <<"Err">> /\ status_message'[2] \in TextErrors
       /\ pc = "send" =>
             \/ pc' = "text" /\ response'[1].status \in replies.statuses
             \/ send_result' = <<"Err">> /\ status_message'[2] \in SendErrors
       /\ (KeyStep /\ send_result' = <<"Err">>) =>
             status_message'[2] \in {"Invalid header format: '", "Invalid header name: '",
                                     "Invalid header value: '", "JSON parse error: "}]_vars

\* a response with status 500 was recorded after one with status 404, and is shown
C23_Witness ==
    /\ send_result = <<"Ok">>
    /\ Len(request_history) = 2
    /\ request_history[1][2][1].status = 404
    /\ current_response[1].status = 500
    /\ current_response[1].status_text = "500 Internal Server Error"
    /\ active_panel = "Response"

\* C24: when a send has succeeded, the URL, headers and body buffers, the method
\* index, the is-JSON flag, the focus and the quit flag are what they were when
\* Enter was read; the focus was Normal then and is Normal now; the history is
\* the old history with one pair appended; and the request these fields build
\* is the request they built before, so that it can be sent again unchanged.
C24_SuccessfulSendKeepsComposedRequest ==
    send_result = <<"Ok">> =>
        /\ before # <<>>
        /\ url = before[1].url
        /\ headers_input = before[1].headers_input
        /\ body_input = before[1].body_input
        /\ method_index = before[1].method_index
        /\ is_json_body = before[1].is_json_body
        /\ input_mode = "Normal"
        /\ before[1].input_mode = "Normal"
        /\ should_quit = FALSE
        /\ before[1].should_quit = FALSE
        /\ SubSeq(request_history, 1, Len(request_history) - 1) = before[1].request_history
        /\ LET again == BuildRequest(method_index, url, HeaderLines(headers_input),
                                     body_input, is_json_body)
               first == BuildRequest(before[1].method_index, before[1].url,
                                     HeaderLines(before[1].headers_input),
                                     before[1].body_input, before[1].is_json_body)
           IN  again.ok /\ again = first

\* a POST with a header line and a JSON body was sent and answered, and the
\* panel and the status message changed with it
C24_Witness ==
    /\ send_result = <<"Ok">>
    /\ body_input # <<>>
    /\ headers_input # <<>>
    /\ is_json_body
    /\ before # <<>>
    /\ before[1].active_panel # active_panel
    /\ before[1].status_message # status_message
    /\ before[1].current_response # current_response

\* the quit key and the focus it is read in
QuitKeyStep == KeyStep /\ key' = <<"q">>

\* the quit flag is set only by the quit key read in Normal, and in an editing
\* focus that key is appended to the focused buffer and nothing else changes
QuitOnlyInNormal ==
    /\ should_quit' # should_quit =>
          QuitKeyStep /\ input_mode = "Normal" /\ should_quit'
    /\ (QuitKeyStep /\ input_mode = "Normal") =>
          /\ should_quit'
          /\ pc' = "done"
          /\ run_result' = <<"Ok">>
          /\ UNCHANGED <<input_mode, buffers>>
    /\ (QuitKeyStep /\ input_mode # "Normal") =>
          /\ ~should_quit'
          /\ pc' = "draw"
          /\ UNCHANGED <<input_mode, run_result>>
          /\ url' = IF input_mode = "EditingUrl" THEN Append(url, "q") ELSE url
          /\ headers_input' =
                IF input_mode = "EditingHeaders" THEN Append(headers_input, "q")
                ELSE headers_input
          /\ body_input' =
                IF input_mode = "EditingBody" THEN Append(body_input, "q")
                ELSE body_input

\* C25 as the specification states it: the session ends only in the Normal focus.
C25_AsStated ==
    [][/\ QuitOnlyInNormal
       /\ (InLoop /\ ~InLoop') => input_mode' = "Normal"]_vars

\* C25: the quit flag is set only by the quit key read in Normal; read in an
\* editing focus the key is appended to the focused buffer and the flag stays
\* false; and the loop is left either by quitting, in Normal, or by a draw or a
\* read of an event that failed, in whatever focus the session is in.
C25_QuitOnlyInNormal ==
    [][/\ QuitOnlyInNormal
       /\ (InLoop /\ ~InLoop') =>
             \/ should_quit' /\ input_mode' = "Normal" /\ run_result' = <<"Ok">>
             \/ /\ pc \in {"draw", "read"}
                /\ run_result' = <<"Err">>
                /\ ~should_quit'
                /\ UNCHANGED app]_vars

\* 'q' was typed into the URL, the focus went back to Normal, and 'q' quit
C25_Witness ==
    /\ should_quit
    /\ pc = "done"
    /\ key = <<"q">>
    /\ input_mode = "Normal"
    /\ url # <<>>
    /\ url[Len(url)] = "q"
    /\ nevents = 3

====
